---- MODULE Spec2Model ----
(***************************************************************************)
(* Deferred webhook delivery of invoice-bot-api: the webhook_timers table   *)
(* (jobManager.js), the poll cycle of the cron job manager (cronJobs.js)    *)
(* and the timer endpoints (start-timer.controller.js, timer.controller.js).*)
(* One action is one step of a handler between two awaits: every SQL        *)
(* statement is atomic in the database, several handlers interleave between *)
(* their statements.                                                        *)
(***************************************************************************)
EXTENDS Integers, Sequences, FiniteSets, TLC

\* ------------------------------------------------------------------ bounds
\* start requests accepted while handlers interleave (Spec)
MaxStarts == 1
\* start requests accepted when handlers run one at a time (SpecSeq, SpecRestart)
MaxSeqStarts == 2
\* the clock stops here: one duration and the whole retry ladder fit
MaxNow == 1320000

Trips == {"T1", "T2"}
\* the trips that start requests name under Spec and SpecRestart (T2 stays
\* without a row)
CoreTrips == {"T1"}
Cycles == {"cron", "manual"}
Durations == {60000}
\* what a POST settles with: an HTTP status, or 0 when no response came
\* (network error, timeout)
HttpStatuses == {0, 200, 500}

\* The duration strings of start requests under SpecCron, character by
\* character; the empty one stands for a request without duration.
DurationInputs ==
  {<<>>, <<"6", "0", "s">>, <<" ", "1", "M">>, <<"1", ".", "0", "m">>,
   <<"3", "0", "x">>, <<"0", "s">>, <<"-", "5", "s">>, <<"1", ".", "m">>,
   <<"0", ".", "0", "0", "0", "1", "s">>}

\* What axios.post settles with under SpecDeliver: a fulfilled response (2xx),
\* or an error with its code and the status of its response (0 when the error
\* has no response).
PostOutcomes ==
  {[ok |-> TRUE, code |-> "none", status |-> 200],
   [ok |-> FALSE, code |-> "ECONNRESET", status |-> 0],
   [ok |-> FALSE, code |-> "ENOTFOUND", status |-> 0],
   [ok |-> FALSE, code |-> "ECONNREFUSED", status |-> 0],
   [ok |-> FALSE, code |-> "TIMEOUT", status |-> 0],
   [ok |-> FALSE, code |-> "ECONNABORTED", status |-> 0],
   [ok |-> FALSE, code |-> "none", status |-> 0],
   [ok |-> FALSE, code |-> "none", status |-> 304],
   [ok |-> FALSE, code |-> "ERR_BAD_REQUEST", status |-> 400],
   [ok |-> FALSE, code |-> "ERR_BAD_REQUEST", status |-> 404],
   [ok |-> FALSE, code |-> "ERR_BAD_REQUEST", status |-> 408],
   [ok |-> FALSE, code |-> "ERR_BAD_REQUEST", status |-> 429],
   [ok |-> FALSE, code |-> "ERR_BAD_REQUEST", status |-> 499],
   [ok |-> FALSE, code |-> "ERR_BAD_RESPONSE", status |-> 500],
   [ok |-> FALSE, code |-> "ERR_BAD_RESPONSE", status |-> 503]}

\* The k-th start request of a run carries its own webhook URL and sender.
InputOf(k) == [webhookUrl |-> k, senderId |-> IF k % 2 = 1 THEN "null" ELSE "S1"]

\* ------------------------------------------------------------ program data
\* SQL NULL of a timestamp column
NullTime == -1

\* scheduleRetry: const retryDelays = [1 min, 5 min, 15 min]
retryDelays == <<1 * 60 * 1000, 5 * 60 * 1000, 15 * 60 * 1000>>

\* scheduleRetry: const maxRetries = 3
maxRetries == 3

\* CREATE TABLE webhook_timers: status ENUM('active', 'expired', 'completed')
StatusDomain == {"active", "expired", "completed"}

\* CREATE TABLE webhook_timers: the columns
TableColumns ==
  {"id", "trip_id", "webhook_url", "sender_id", "deadline_timestamp", "status",
   "created_at", "updated_at"}

\* The columns scheduleRetry writes and getPendingRetries reads besides those
\* of addOrUpdateJob.
RetryColumns == {"retry_count", "last_retry_at", "next_retry_at", "max_retries"}

\* The retry columns that jobManager.js reads and writes are not created by
\* database-setup.sql; in a table that has them a fresh row carries these.
RetryColumnDefaults ==
  [retryCount |-> 0, lastRetryAt |-> NullTime, nextRetryAt |-> NullTime]

\* --------------------------------------------------------- parseDuration
\* A duration string is the sequence of its characters.
Digits == {"0", "1", "2", "3", "4", "5", "6", "7", "8", "9"}

DigitValue(ch) ==
  CASE ch = "0" -> 0 [] ch = "1" -> 1 [] ch = "2" -> 2 [] ch = "3" -> 3
    [] ch = "4" -> 4 [] ch = "5" -> 5 [] ch = "6" -> 6 [] ch = "7" -> 7
    [] ch = "8" -> 8 [] ch = "9" -> 9

\* String.prototype.toLowerCase on the characters a unit may be written with
ToLowerCase(ch) ==
  CASE ch = "S" -> "s" [] ch = "M" -> "m" [] ch = "H" -> "h" [] ch = "D" -> "d"
    [] OTHER -> ch

\* String.prototype.trim
RECURSIVE Trim(_)
Trim(str) ==
  IF str = <<>> THEN str
  ELSE IF Head(str) = " " THEN Trim(Tail(str))
  ELSE IF str[Len(str)] = " " THEN Trim(SubSeq(str, 1, Len(str) - 1))
  ELSE str

\* The number a sequence of digits writes.
RECURSIVE DigitsValue(_)
DigitsValue(ds) ==
  IF ds = <<>> THEN 0
  ELSE 10 * DigitsValue(SubSeq(ds, 1, Len(ds) - 1)) + DigitValue(ds[Len(ds)])

RECURSIVE Pow10(_)
Pow10(n) == IF n = 0 THEN 1 ELSE 10 * Pow10(n - 1)

\* The milliseconds of one unit: s, m, h, d
UnitMs(unit) ==
  CASE unit = "s" -> 1000
    [] unit = "m" -> 60 * 1000
    [] unit = "h" -> 60 * 60 * 1000
    [] unit = "d" -> 24 * 60 * 60 * 1000

\* cleanDuration.match(/^(\d+(?:\.\d+)?)(s|m|h|d)$/): the digits before and
\* after the point and the unit, or no match.
MatchDuration(str) ==
  LET n    == Len(str)
      body == SubSeq(str, 1, n - 1)
      dots == {i \in DOMAIN body : body[i] = "."}
      dot  == CHOOSE i \in dots : TRUE
      int  == IF dots = {} THEN body ELSE SubSeq(body, 1, dot - 1)
      frac == IF dots = {} THEN <<>> ELSE SubSeq(body, dot + 1, Len(body))
  IN  IF /\ n >= 2
         /\ str[n] \in {"s", "m", "h", "d"}
         /\ Cardinality(dots) <= 1
         /\ int # <<>>
         /\ dots # {} => frac # <<>>
         /\ \A i \in DOMAIN int : int[i] \in Digits
         /\ \A i \in DOMAIN frac : frac[i] \in Digits
        THEN [matched |-> TRUE, int |-> int, frac |-> frac, unit |-> str[n]]
        ELSE [matched |-> FALSE]

\* parseDuration without  if (value <= 0) throw
ParseDurationNoPositiveCheck(duration) ==
  LET clean == [i \in DOMAIN Trim(duration) |-> ToLowerCase(Trim(duration)[i])]
      m     == MatchDuration(clean)
      scale == Pow10(Len(m.frac))
      value == DigitsValue(m.int) * scale + DigitsValue(m.frac)
  IN  IF ~m.matched THEN [ok |-> FALSE, error |-> "Invalid duration format"]
      ELSE [ok |-> TRUE, ms |-> (value * UnitMs(m.unit)) \div scale]

\* parseDuration(duration) for a string: trim, lower case, match, reject a
\* value <= 0, Math.floor(value * unit). (The product is exact here; the
\* inputs of the model have no fraction that a double rounds.)
ParseDuration(duration) ==
  LET clean == [i \in DOMAIN Trim(duration) |-> ToLowerCase(Trim(duration)[i])]
      m     == MatchDuration(clean)
      scale == Pow10(Len(m.frac))
      value == DigitsValue(m.int) * scale + DigitsValue(m.frac)
  IN  IF ~m.matched THEN [ok |-> FALSE, error |-> "Invalid duration format"]
      ELSE IF value <= 0 THEN [ok |-> FALSE, error |-> "Duration must be greater than 0"]
      ELSE [ok |-> TRUE, ms |-> (value * UnitMs(m.unit)) \div scale]

\* startTimer: duration ? parseDuration(duration) : 15 * 60 * 1000
DefaultDurationMs == 15 * 60 * 1000

VARIABLES
  timers,        \* the rows of webhook_timers
  nextId,        \* the next id generateId hands out
  starts,        \* start requests accepted so far
  now,           \* Date.now() / NOW()
  retrySchema,   \* TRUE iff the table has the retry columns and the status pending_retry
  isInitialized, \* CronJobManager.isInitialized
  cronTasks,     \* the periodic tasks cron.schedule has created
  cronRunning,   \* cronTask.running
  lastCall,      \* the last of start() and stop() that was called
  cyc,           \* per poll cycle: position in processExpiredJobs and its locals
  req,           \* the start request in flight (startTimer / addOrUpdateJob)
  resp,          \* the last answer of the cancel endpoint
  lastResults,   \* what processExpiredJob returned for the POSTs of the last cycle
  req2           \* a second start request in flight, concurrent with req

\* the CronJobManager object and the record of its last call
cronVars == <<isInitialized, cronTasks, cronRunning, lastCall>>

vars == <<timers, nextId, starts, now, retrySchema, cronVars, cyc, req, resp, lastResults, req2>>

\* ---------------------------------------------------------- the scheduler
\* The CronJobManager object.
CronState ==
  [isInitialized |-> isInitialized, tasks |-> cronTasks, running |-> cronRunning]

\* initialize() without the isInitialized guard
CronInitializeUnguarded(m) ==
  [isInitialized |-> TRUE, tasks |-> m.tasks + 1, running |-> FALSE]

\* initialize(): returns at once when already initialized, else creates the
\* periodic task with scheduled: false.
CronInitialize(m) ==
  IF m.isInitialized
    THEN m
    ELSE [isInitialized |-> TRUE, tasks |-> m.tasks + 1, running |-> FALSE]

\* start(): initialize() when not initialized, then cronTask.start() when the
\* task is not running.
CronStart(m) ==
  LET i == IF ~m.isInitialized THEN CronInitialize(m) ELSE m
  IN  IF i.tasks > 0 /\ ~i.running THEN [i EXCEPT !.running = TRUE] ELSE i

\* stop(): cronTask.stop() when there is a task and it is running.
CronStop(m) ==
  IF m.tasks > 0 /\ m.running THEN [m EXCEPT !.running = FALSE] ELSE m

\* getStatus()
GetStatus(m) ==
  [initialized |-> m.isInitialized,
   running |-> IF m.tasks > 0 THEN m.running ELSE FALSE]

\* The CronJobManager object becomes m.
SetCron(m) ==
  /\ isInitialized' = m.isInitialized
  /\ cronTasks' = m.tasks
  /\ cronRunning' = m.running

\* ------------------------------------------------------------- the table
Live(r) == r.status \in {"active", "pending_retry"}

Terminal(r) == r.status \in {"completed", "expired"}

\* ORDER BY deadline_timestamp ASC: all orders of the rows S that are ascending
\* in deadline (the order of equal keys is not determined by the query).
SortedByDeadline(S) ==
  LET n == Cardinality(S)
  IN  {s \in [1..n -> S] :
         /\ \A i, j \in 1..n : i # j => s[i] # s[j]
         /\ \A i, j \in 1..n : i < j => s[i].deadline <= s[j].deadline}

\* ORDER BY next_retry_at ASC
SortedByNextRetry(S) ==
  LET n == Cardinality(S)
  IN  {s \in [1..n -> S] :
         /\ \A i, j \in 1..n : i # j => s[i] # s[j]
         /\ \A i, j \in 1..n : i < j => s[i].nextRetryAt <= s[j].nextRetryAt}

\* addOrUpdateJob: SELECT id, created_at, sender_id ... WHERE trip_id = ? AND status = 'active'
SelectExisting(tbl, tripId) ==
  {r \in tbl : r.tripId = tripId /\ r.status = "active"}

\* addOrUpdateJob: UPDATE ... SET webhook_url, sender_id, deadline_timestamp
\*                 WHERE trip_id = ? AND status = 'active'
UpdateJob(tbl, tripId, webhookUrl, senderId, deadline) ==
  {IF r.tripId = tripId /\ r.status = "active"
     THEN [r EXCEPT !.webhookUrl = webhookUrl, !.senderId = senderId,
                    !.deadline = deadline]
     ELSE r : r \in tbl}

\* addOrUpdateJob: INSERT INTO webhook_timers (...) VALUES (?, ?, ?, ?, ?, 'active', NOW(), NOW())
InsertJob(tbl, id, tripId, webhookUrl, senderId, deadline, t) ==
  tbl \cup {[id |-> id, tripId |-> tripId, webhookUrl |-> webhookUrl,
             senderId |-> senderId, deadline |-> deadline, status |-> "active",
             retryCount |-> RetryColumnDefaults.retryCount,
             lastRetryAt |-> RetryColumnDefaults.lastRetryAt,
             nextRetryAt |-> RetryColumnDefaults.nextRetryAt,
             createdAt |-> t]}

\* removeJob with removed = affectedRows >= 0
RemoveJobAlwaysRemoved(tbl, tripId) ==
  LET hit == {r \in tbl : r.tripId = tripId /\ r.status = "active"}
  IN  [tbl |-> tbl \ hit, removed |-> Cardinality(hit) >= 0]

\* removeJob: DELETE FROM webhook_timers WHERE trip_id = ? AND status = 'active';
\* removed = affectedRows > 0
RemoveJob(tbl, tripId) ==
  LET hit == {r \in tbl : r.tripId = tripId /\ r.status = "active"}
  IN  [tbl |-> tbl \ hit, removed |-> Cardinality(hit) > 0]

\* cancelTimer: 404 when removeJob answered false, else 200
CancelStatus(removed) == IF removed THEN 200 ELSE 404

\* getJobByTripId: SELECT ... WHERE trip_id = ? AND status = 'active' LIMIT 1
\* (the set of rows the query may return; empty when it returns null)
GetJobByTripId(tbl, tripId) ==
  {r \in tbl : r.tripId = tripId /\ r.status = "active"}

\* getTimerStatusByTripId: 404 when getJobByTripId answers null, else 200 with
\* the job (the possible answers: LIMIT 1 picks any matching row)
GetTimerStatusByTripId(tbl, tripId) ==
  IF GetJobByTripId(tbl, tripId) = {}
    THEN {[http |-> 404]}
    ELSE {[http |-> 200, job |-> r] : r \in GetJobByTripId(tbl, tripId)}

\* The job object built from a row by getExpiredJobs: retryCount is not selected.
ExpiredJobOf(r) == [id |-> r.id, tripId |-> r.tripId, status |-> r.status]

\* The job object built from a row by getPendingRetries.
RetryJobOf(r) ==
  [id |-> r.id, tripId |-> r.tripId, status |-> r.status, retryCount |-> r.retryCount]

\* getExpiredJobs without  deadline_timestamp <= now  in its WHERE
GetExpiredJobsAnyDeadline(tbl, t) ==
  LET due == {r \in tbl : r.status = "active"}
  IN  {[i \in DOMAIN s |-> ExpiredJobOf(s[i])] : s \in SortedByDeadline(due)}

\* getExpiredJobs: WHERE status = 'active' AND deadline_timestamp <= now
\*                 ORDER BY deadline_timestamp ASC
GetExpiredJobs(tbl, t) ==
  LET due == {r \in tbl : r.status = "active" /\ r.deadline <= t}
  IN  {[i \in DOMAIN s |-> ExpiredJobOf(s[i])] : s \in SortedByDeadline(due)}

\* getPendingRetries without  status = 'pending_retry'  in its WHERE
GetPendingRetriesAnyStatus(tbl, t) ==
  LET due == {r \in tbl : r.nextRetryAt # NullTime /\ r.nextRetryAt <= t}
  IN  {[i \in DOMAIN s |-> RetryJobOf(s[i])] : s \in SortedByNextRetry(due)}

\* getPendingRetries: WHERE status = 'pending_retry' AND next_retry_at <= now
\*                    ORDER BY next_retry_at ASC
GetPendingRetries(tbl, t) ==
  LET due == {r \in tbl : /\ r.status = "pending_retry"
                          /\ r.nextRetryAt # NullTime
                          /\ r.nextRetryAt <= t}
  IN  {[i \in DOMAIN s |-> RetryJobOf(s[i])] : s \in SortedByNextRetry(due)}

\* markJobsCompleted guarded by  status = 'active'  alone
MarkJobsCompletedActiveOnly(tbl, tripIds) ==
  {IF r.tripId \in tripIds /\ r.status = "active"
     THEN [r EXCEPT !.status = "completed"]
     ELSE r : r \in tbl}

\* markJobsCompleted: UPDATE ... SET status = 'completed'
\*   WHERE trip_id IN (...) AND status IN ('active', 'pending_retry')
MarkJobsCompleted(tbl, tripIds) ==
  {IF r.tripId \in tripIds /\ r.status \in {"active", "pending_retry"}
     THEN [r EXCEPT !.status = "completed"]
     ELSE r : r \in tbl}

\* scheduleRetry indexing retryDelays by retryCount - 1
NextRetryDelayOffByOne(retryCount) ==
  IF retryCount \in DOMAIN retryDelays
    THEN retryDelays[retryCount]
    ELSE retryDelays[Len(retryDelays)]

\* scheduleRetry: retryDelays[retryCount] || retryDelays[retryDelays.length - 1]
NextRetryDelay(retryCount) ==
  IF retryCount + 1 \in DOMAIN retryDelays
    THEN retryDelays[retryCount + 1]
    ELSE retryDelays[Len(retryDelays)]

\* scheduleRetry without its  retryCount >= maxRetries  branch
ScheduleRetryNeverExpires(tbl, t, tripId, retryCount) ==
  {IF r.tripId = tripId /\ r.status \in {"active", "pending_retry"}
     THEN [r EXCEPT !.status = "pending_retry",
                    !.retryCount = retryCount + 1,
                    !.lastRetryAt = t,
                    !.nextRetryAt = t + NextRetryDelay(retryCount)]
     ELSE r : r \in tbl}

\* scheduleRetry whose second UPDATE does not set status
ScheduleRetryKeepsStatus(tbl, t, tripId, retryCount) ==
  {IF r.tripId = tripId /\ r.status \in {"active", "pending_retry"}
     THEN IF retryCount >= maxRetries
            THEN [r EXCEPT !.status = "expired"]
            ELSE [r EXCEPT !.retryCount = retryCount + 1,
                           !.lastRetryAt = t,
                           !.nextRetryAt = t + NextRetryDelay(retryCount)]
     ELSE r : r \in tbl}

\* scheduleRetry also moving deadline_timestamp to the next retry instant
ScheduleRetryMovesDeadline(tbl, t, tripId, retryCount) ==
  {IF r.tripId = tripId /\ r.status \in {"active", "pending_retry"}
     THEN IF retryCount >= maxRetries
            THEN [r EXCEPT !.status = "expired"]
            ELSE [r EXCEPT !.status = "pending_retry",
                           !.retryCount = retryCount + 1,
                           !.lastRetryAt = t,
                           !.nextRetryAt = t + NextRetryDelay(retryCount),
                           !.deadline = t + NextRetryDelay(retryCount)]
     ELSE r : r \in tbl}

\* scheduleRetry without the status guard of its UPDATEs
ScheduleRetryUnguarded(tbl, t, tripId, retryCount) ==
  {IF r.tripId = tripId
     THEN IF retryCount >= maxRetries
            THEN [r EXCEPT !.status = "expired"]
            ELSE [r EXCEPT !.status = "pending_retry",
                           !.retryCount = retryCount + 1,
                           !.lastRetryAt = t,
                           !.nextRetryAt = t + NextRetryDelay(retryCount)]
     ELSE r : r \in tbl}

\* scheduleRetry expiring at retryCount > maxRetries
ScheduleRetryOneMore(tbl, t, tripId, retryCount) ==
  {IF r.tripId = tripId /\ r.status \in {"active", "pending_retry"}
     THEN IF retryCount > maxRetries
            THEN [r EXCEPT !.status = "expired"]
            ELSE [r EXCEPT !.status = "pending_retry",
                           !.retryCount = retryCount + 1,
                           !.lastRetryAt = t,
                           !.nextRetryAt = t + NextRetryDelay(retryCount)]
     ELSE r : r \in tbl}

\* scheduleRetry(tripId, retryCount): expire at retryCount >= maxRetries, else
\* move to pending_retry; both UPDATEs are guarded by
\*   WHERE trip_id = ? AND status IN ('active', 'pending_retry')
ScheduleRetry(tbl, t, tripId, retryCount) ==
  {IF r.tripId = tripId /\ r.status \in {"active", "pending_retry"}
     THEN IF retryCount >= maxRetries
            THEN [r EXCEPT !.status = "expired"]
            ELSE [r EXCEPT !.status = "pending_retry",
                           !.retryCount = retryCount + 1,
                           !.lastRetryAt = t,
                           !.nextRetryAt = t + NextRetryDelay(retryCount)]
     ELSE r : r \in tbl}

\* processExpiredJobs passing 0 whatever the job's retryCount
CurrentRetryCountZero(job) == 0

\* processExpiredJobs: const currentRetryCount = job.retryCount || 0
CurrentRetryCount(job) ==
  IF "retryCount" \in DOMAIN job THEN job.retryCount ELSE 0

\* isRetryableError with no exception for 408 and 429
IsRetryableErrorNo4xx(error) ==
  IF error.code \in {"ECONNRESET", "ENOTFOUND", "ECONNREFUSED", "TIMEOUT"} THEN TRUE
  ELSE IF error.status # 0 /\ error.status >= 500 THEN TRUE
  ELSE IF error.status # 0 /\ error.status >= 400 /\ error.status < 500 THEN FALSE
  ELSE TRUE

\* isRetryableError(error): error.code, then error.response.status (status 0
\* stands for an error without response)
IsRetryableError(error) ==
  IF error.code \in {"ECONNRESET", "ENOTFOUND", "ECONNREFUSED", "TIMEOUT"} THEN TRUE
  ELSE IF error.status # 0 /\ error.status >= 500 THEN TRUE
  ELSE IF error.status # 0 /\ error.status >= 400 /\ error.status < 500
    THEN error.status = 408 \/ error.status = 429
  ELSE TRUE

\* processExpiredJob: isSuccess = response.status >= 200 && response.status < 300
IsSuccess(status) == status >= 200 /\ status < 300


\* ------------------------------------------------------------ the handlers
IdleCycle == [pc |-> "idle", jobs |-> <<>>, k |-> 0]

IdleReq == [pc |-> "idle"]

\* no cancel request answered yet
NoResp == [tripId |-> "none", removed |-> FALSE, http |-> 0]

\* The state once app.js is loaded: an empty table, cronJobManager.initialize()
\* and cronJobManager.start() done, no handler running.
Init ==
  /\ timers = {}
  /\ nextId = 1
  /\ starts = 0
  /\ now = 0
  /\ retrySchema \in BOOLEAN
  /\ isInitialized = TRUE
  /\ cronTasks = 1
  /\ cronRunning = TRUE
  /\ lastCall = "start"
  /\ cyc = [c \in Cycles |-> IdleCycle]
  /\ req = IdleReq
  /\ resp = NoResp
  /\ lastResults = <<>>
  /\ req2 = IdleReq

\* The instants at which a row becomes due.
DueTimes ==
  {r.deadline : r \in {x \in timers : x.status = "active"}}
    \cup {r.nextRetryAt : r \in {x \in timers : x.status = "pending_retry"}}

\* Time passes until the instant t at which some row becomes due.
Tick(t) ==
  /\ t > now
  /\ t <= MaxNow
  /\ now' = t
  /\ UNCHANGED <<timers, nextId, starts, retrySchema, cronVars, cyc, req, resp, lastResults, req2>>

\* CronJobManager.initialize
Initialize ==
  /\ SetCron(CronInitialize(CronState))
  /\ UNCHANGED <<timers, nextId, starts, now, retrySchema, lastCall, cyc, req, resp, lastResults, req2>>

\* CronJobManager.stop
Stop ==
  /\ SetCron(CronStop(CronState))
  /\ lastCall' = "stop"
  /\ UNCHANGED <<timers, nextId, starts, now, retrySchema, cyc, req, resp, lastResults, req2>>

\* CronJobManager.start
Start ==
  /\ SetCron(CronStart(CronState))
  /\ lastCall' = "start"
  /\ UNCHANGED <<timers, nextId, starts, now, retrySchema, cyc, req, resp, lastResults, req2>>

\* startTimer that never starts the scheduler
StartTimerNoCronStart(tripId, durationMs) ==
  /\ req.pc = "idle"
  /\ starts' = starts + 1
  /\ req' = [pc |-> "checked", tripId |-> tripId,
             webhookUrl |-> InputOf(starts + 1).webhookUrl,
             senderId |-> InputOf(starts + 1).senderId,
             durationMs |-> durationMs,
             cronStarted |-> FALSE,
             isRestart |-> GetJobByTripId(timers, tripId) # {}]
  /\ UNCHANGED <<timers, nextId, now, retrySchema, cronVars, cyc, resp, lastResults, req2>>

\* startTimer up to the answer of getJobByTripId: the scheduler is started when
\* it is not running (cronStarted), isRestart = !!existingJob.
StartTimer(tripId, durationMs) ==
  /\ req.pc = "idle"
  /\ starts' = starts + 1
  /\ IF ~GetStatus(CronState).running
       THEN SetCron(CronStart(CronState)) /\ lastCall' = "start"
       ELSE UNCHANGED cronVars
  /\ req' = [pc |-> "checked", tripId |-> tripId,
             webhookUrl |-> InputOf(starts + 1).webhookUrl,
             senderId |-> InputOf(starts + 1).senderId,
             durationMs |-> durationMs,
             cronStarted |-> ~GetStatus(CronState).running,
             isRestart |-> GetJobByTripId(timers, tripId) # {}]
  /\ UNCHANGED <<timers, nextId, now, retrySchema, cyc, resp, lastResults, req2>>

\* startTimer for a request whose duration is the string `duration` (empty
\* when the request has none): a duration that parseDuration rejects is
\* answered 400 at once, any other request goes on as StartTimer.
StartTimerRequest(tripId, duration) ==
  IF duration = <<>>
    THEN StartTimer(tripId, DefaultDurationMs)
    ELSE IF ParseDuration(duration).ok
      THEN StartTimer(tripId, ParseDuration(duration).ms)
      ELSE /\ req.pc = "idle"
           /\ resp' = [tripId |-> tripId, removed |-> FALSE, http |-> 400]
           /\ UNCHANGED <<timers, nextId, starts, now, retrySchema, cronVars, cyc, req,
                        lastResults, req2>>

\* startTimer: responseMessage = isRestart ? 'Timer restarted! ...' : 'Timer started! ...'
ResponseMessage(isRestart) == IF isRestart THEN "restarted" ELSE "started"

\* addOrUpdateJob up to the answer of its SELECT: deadline = Date.now() + durationMs
AddOrUpdateJobSelect ==
  /\ req.pc = "checked"
  /\ req' = [pc |-> "selected", tripId |-> req.tripId, webhookUrl |-> req.webhookUrl,
             senderId |-> req.senderId, isRestart |-> req.isRestart,
             deadline |-> now + req.durationMs,
             existing |-> {r.id : r \in SelectExisting(timers, req.tripId)}]
  /\ UNCHANGED <<timers, nextId, starts, now, retrySchema, cronVars, cyc, resp, lastResults, req2>>

\* addOrUpdateJob from the answer of its SELECT: UPDATE when a row was found,
\* INSERT of a new row otherwise, commit.
AddOrUpdateJobWrite ==
  /\ req.pc = "selected"
  /\ IF req.existing # {}
       THEN /\ timers' = UpdateJob(timers, req.tripId, req.webhookUrl,
                                   req.senderId, req.deadline)
            /\ UNCHANGED nextId
       ELSE /\ timers' = InsertJob(timers, nextId, req.tripId, req.webhookUrl,
                                   req.senderId, req.deadline, now)
            /\ nextId' = nextId + 1
  /\ req' = IdleReq
  /\ UNCHANGED <<starts, now, retrySchema, cronVars, cyc, resp, lastResults, req2>>

\* addOrUpdateJob of a second, concurrent start request up to the answer of
\* its SELECT (its own connection and transaction).
ConcurrentSelect(tripId, durationMs) ==
  /\ req2.pc = "idle"
  /\ starts' = starts + 1
  /\ req2' = [pc |-> "selected", tripId |-> tripId,
              webhookUrl |-> InputOf(starts + 1).webhookUrl,
              senderId |-> InputOf(starts + 1).senderId,
              deadline |-> now + durationMs,
              existing |-> {r.id : r \in SelectExisting(timers, tripId)}]
  /\ UNCHANGED <<timers, nextId, now, retrySchema, cronVars, cyc, req, resp, lastResults>>

\* addOrUpdateJob of the second request from the answer of its SELECT:
\* UPDATE or INSERT, commit.
ConcurrentWrite ==
  /\ req2.pc = "selected"
  /\ IF req2.existing # {}
       THEN /\ timers' = UpdateJob(timers, req2.tripId, req2.webhookUrl,
                                   req2.senderId, req2.deadline)
            /\ UNCHANGED nextId
       ELSE /\ timers' = InsertJob(timers, nextId, req2.tripId, req2.webhookUrl,
                                   req2.senderId, req2.deadline, now)
            /\ nextId' = nextId + 1
  /\ req2' = IdleReq
  /\ UNCHANGED <<starts, now, retrySchema, cronVars, cyc, req, resp, lastResults>>

\* cancelTimer: removeJob, then 200 or 404
CancelTimer(tripId) ==
  LET res == RemoveJob(timers, tripId)
  IN  /\ timers' = res.tbl
      /\ resp' = [tripId |-> tripId, removed |-> res.removed,
                  http |-> CancelStatus(res.removed)]
      /\ UNCHANGED <<nextId, starts, now, retrySchema, cronVars, cyc, req, lastResults, req2>>

\* jobManager.removeJob on its own: the caller keeps no answer.
RemoveJobCall(tripId) ==
  /\ timers' = RemoveJob(timers, tripId).tbl
  /\ UNCHANGED <<nextId, starts, now, retrySchema, cronVars, cyc, req, resp, lastResults, req2>>

\* processExpiredJobs up to the answer of getExpiredJobs. The periodic task
\* fires only while the cron task runs; the manual trigger at any time.
BeginCycle(c) ==
  /\ cyc[c].pc = "idle"
  /\ c = "cron" => cronRunning
  /\ \E ex \in GetExpiredJobs(timers, now) :
       cyc' = [cyc EXCEPT ![c] = [pc |-> "pending", jobs |-> ex, k |-> 0]]
  /\ UNCHANGED <<timers, nextId, starts, now, retrySchema, cronVars, req, resp, lastResults, req2>>

\* processExpiredJobs with allJobs = expiredJobs alone
FetchRetriesExpiredOnly(c) ==
  /\ cyc[c].pc = "pending"
  /\ retrySchema
  /\ cyc' = [cyc EXCEPT ![c] =
               IF cyc[c].jobs = <<>>
                 THEN IdleCycle
                 ELSE [pc |-> "posting", jobs |-> cyc[c].jobs, k |-> 0]]
  /\ UNCHANGED <<timers, nextId, starts, now, retrySchema, cronVars, req, resp, lastResults, req2>>

\* processExpiredJobs: getPendingRetries answers; an empty allJobs ends the
\* cycle, otherwise every job's webhook POST is issued (Promise.allSettled).
FetchRetries(c) ==
  /\ cyc[c].pc = "pending"
  /\ retrySchema
  /\ \E rt \in GetPendingRetries(timers, now) :
       LET allJobs == cyc[c].jobs \o rt
       IN  cyc' = [cyc EXCEPT ![c] =
                     IF allJobs = <<>>
                       THEN IdleCycle
                       ELSE [pc |-> "posting", jobs |-> allJobs, k |-> 0]]
  /\ UNCHANGED <<timers, nextId, starts, now, retrySchema, cronVars, req, resp, lastResults, req2>>

\* processExpiredJobs: a store call throws (getPendingRetries always does on a
\* table without the retry columns; markJobsCompleted or scheduleRetry may);
\* the catch of processExpiredJobs logs the error and the cycle is over.
StoreError(c) ==
  /\ cyc[c].pc \in {"pending", "retrying"}
  /\ cyc' = [cyc EXCEPT ![c] = IdleCycle]
  /\ UNCHANGED <<timers, nextId, starts, now, retrySchema, cronVars, req, resp, lastResults, req2>>

\* The subsequence of s at the indices in idx.
RECURSIVE Pick(_, _, _)
Pick(s, idx, i) ==
  IF i > Len(s) THEN <<>>
  ELSE IF i \in idx THEN <<s[i]>> \o Pick(s, idx, i + 1)
  ELSE Pick(s, idx, i + 1)

\* results.forEach: the jobs whose POST was answered 2xx / the other jobs
SuccessfulJobs(jobs, results) ==
  Pick(jobs, {i \in DOMAIN jobs : IsSuccess(results[i])}, 1)

\* failedJobs filled only from the failures that isRetryableError calls retryable
FailedJobsRetryableOnly(jobs, results) ==
  Pick(jobs, {i \in DOMAIN jobs :
                /\ ~IsSuccess(results[i])
                /\ IsRetryableError([code |-> "none", status |-> results[i]])}, 1)

\* failedJobs filled only from the POSTs that were answered with an error status
FailedJobsWithResponse(jobs, results) ==
  Pick(jobs, {i \in DOMAIN jobs : results[i] >= 400}, 1)

FailedJobs(jobs, results) ==
  Pick(jobs, {i \in DOMAIN jobs : ~IsSuccess(results[i])}, 1)

\* The trip ids of a sequence of jobs.
TripIdsOf(jobs) == {jobs[i].tripId : i \in DOMAIN jobs}

\* processExpiredJobs once every POST has settled with the HTTP statuses
\* `results`: partition, then markJobsCompleted on the successful trip ids.
MarkCompleted(c, results) ==
  /\ cyc[c].pc = "posting"
  /\ DOMAIN results = DOMAIN cyc[c].jobs
  /\ timers' = MarkJobsCompleted(timers, TripIdsOf(SuccessfulJobs(cyc[c].jobs, results)))
  /\ cyc' = [cyc EXCEPT ![c] =
               IF FailedJobs(cyc[c].jobs, results) = <<>>
                 THEN IdleCycle
                 ELSE [pc |-> "retrying", jobs |-> FailedJobs(cyc[c].jobs, results),
                       k |-> 1]]
  /\ UNCHANGED <<nextId, starts, now, retrySchema, cronVars, req, resp, lastResults, req2>>

\* processExpiredJobs: markJobsCompleted throws; the catch ends the cycle
\* before any failed job is handed to scheduleRetry.
MarkCompletedError(c, results) ==
  /\ cyc[c].pc = "posting"
  /\ DOMAIN results = DOMAIN cyc[c].jobs
  /\ SuccessfulJobs(cyc[c].jobs, results) # <<>>
  /\ cyc' = [cyc EXCEPT ![c] = IdleCycle]
  /\ UNCHANGED <<timers, nextId, starts, now, retrySchema, cronVars, req, resp, lastResults, req2>>

\* the retry loop throwing when scheduleRetry's UPDATE matched no row
RetryFailedThrowsOnNoMatch(c) ==
  /\ cyc[c].pc = "retrying"
  /\ LET job == cyc[c].jobs[cyc[c].k]
         tbl == ScheduleRetry(timers, now, job.tripId, CurrentRetryCount(job))
     IN  /\ timers' = tbl
         /\ cyc' = [cyc EXCEPT ![c] =
                      IF cyc[c].k = Len(cyc[c].jobs) \/ tbl = timers
                        THEN IdleCycle
                        ELSE [@ EXCEPT !.k = @ + 1]]
  /\ UNCHANGED <<nextId, starts, now, retrySchema, cronVars, req, resp, lastResults, req2>>

\* processExpiredJobs: one turn of  for (const job of failedJobs)
\*   await jobManager.scheduleRetry(job.tripId, job.retryCount || 0)
RetryFailed(c) ==
  /\ cyc[c].pc = "retrying"
  /\ LET job == cyc[c].jobs[cyc[c].k]
     IN  timers' = ScheduleRetry(timers, now, job.tripId, CurrentRetryCount(job))
  /\ cyc' = [cyc EXCEPT ![c] =
               IF cyc[c].k = Len(cyc[c].jobs)
                 THEN IdleCycle
                 ELSE [@ EXCEPT !.k = @ + 1]]
  /\ UNCHANGED <<nextId, starts, now, retrySchema, cronVars, req, resp, lastResults, req2>>

\* How the promise of processExpiredJobs settles when a store call of the
\* cycle threw (storeFailed) or not: the try/catch around the whole body logs
\* the error and returns, so the promise resolves either way.
ProcessExpiredJobsSettles(storeFailed) ==
  IF storeFailed THEN "resolved" ELSE "resolved"

\* triggerManualProcess: await this.processExpiredJobs()
TriggerManualProcess(storeFailed) == ProcessExpiredJobsSettles(storeFailed)

\* processExpiredTimers: 200 once triggerManualProcess resolved, 500 from the
\* catch when it rejected
ProcessExpiredTimers(settled) ==
  IF settled = "resolved"
    THEN [http |-> 200, success |-> TRUE]
    ELSE [http |-> 500, success |-> FALSE]

\* processExpiredJob's payload with retryCount counting the attempt (from 1)
PayloadAttemptNumber(job) ==
  LET retryCount == IF "retryCount" \in DOMAIN job THEN job.retryCount + 1 ELSE 1
  IN  [tripId |-> job.tripId, retryCount |-> retryCount, isRetry |-> retryCount > 0]

\* processExpiredJob: const { ..., retryCount = 0 } = job; the payload carries
\* retryCount and isRetry: retryCount > 0
Payload(job) ==
  LET retryCount == IF "retryCount" \in DOMAIN job THEN job.retryCount ELSE 0
  IN  [tripId |-> job.tripId, retryCount |-> retryCount, isRetry |-> retryCount > 0]

\* processExpiredJob(job) when axios.post settles with out: the result object
\* of the try branch or of the catch branch
ProcessExpiredJob(job, out) ==
  IF out.ok
    THEN [tripId |-> job.tripId, success |-> IsSuccess(out.status),
          statusCode |-> out.status, payload |-> Payload(job)]
    ELSE [tripId |-> job.tripId, success |-> FALSE, error |-> out,
          statusCode |-> out.status, payload |-> Payload(job),
          isRetryable |-> IsRetryableError(out)]

\* The results of Promise.allSettled for the jobs of cycle c.
AllSettled(c, outs) ==
  [i \in DOMAIN cyc[c].jobs |-> ProcessExpiredJob(cyc[c].jobs[i], outs[i])]

\* The HTTP statuses of the results, as the partition reads them.
StatusCodes(results) == [i \in DOMAIN results |-> results[i].statusCode]

\* processExpiredJobs once every POST has settled: what the partition and
\* markJobsCompleted make of the table and of the cycle.
SettledEffect(c, outs) ==
  LET codes == StatusCodes(AllSettled(c, outs))
  IN  [timers |-> MarkJobsCompleted(timers,
                    TripIdsOf(SuccessfulJobs(cyc[c].jobs, codes))),
       cyc |-> IF FailedJobs(cyc[c].jobs, codes) = <<>>
                 THEN IdleCycle
                 ELSE [pc |-> "retrying", jobs |-> FailedJobs(cyc[c].jobs, codes),
                       k |-> 1]]

\* processExpiredJobs once every POST has settled, the result objects kept:
\* as MarkCompleted, for POSTs that settle with outs.
ProcessSettled(c, outs) ==
  /\ cyc[c].pc = "posting"
  /\ DOMAIN outs = DOMAIN cyc[c].jobs
  /\ lastResults' = AllSettled(c, outs)
  /\ timers' = SettledEffect(c, outs).timers
  /\ cyc' = [cyc EXCEPT ![c] = SettledEffect(c, outs).cyc]
  /\ UNCHANGED <<nextId, starts, now, retrySchema, cronVars, req, resp, req2>>

\* What the POSTs of cycle c may settle with under SpecDeliver.
SettledOutcomes(c) == [DOMAIN cyc[c].jobs -> PostOutcomes]

\* The outcomes the POSTs of a cycle may settle with.
Outcomes(c) == [DOMAIN cyc[c].jobs -> HttpStatuses]

\* The timer store under every interleaving: start and restart of the core
\* trips, removeJob of any trip, the periodic and the manual poll cycle, store
\* errors.
Next ==
  \/ \E t \in DueTimes : Tick(t)
  \/ \E t \in CoreTrips, d \in Durations : starts < MaxStarts /\ StartTimer(t, d)
  \/ AddOrUpdateJobSelect
  \/ AddOrUpdateJobWrite
  \/ \E t \in Trips : RemoveJobCall(t)
  \/ \E c \in Cycles : BeginCycle(c)
  \/ \E c \in Cycles : FetchRetries(c)
  \/ \E c \in Cycles : StoreError(c)
  \/ \E c \in Cycles : \E rs \in Outcomes(c) : MarkCompleted(c, rs)
  \/ \E c \in Cycles : \E rs \in Outcomes(c) : MarkCompletedError(c, rs)
  \/ \E c \in Cycles : RetryFailed(c)

Spec == Init /\ [][Next]_vars


\* One handler at a time on a table that has the retry columns: a trip is
\* started only while it has no row, the clock moves between handlers, the
\* cancel endpoint is called between handlers, a single poll cycle runs from
\* its fetch to its last reconciliation, and no store call fails.
Quiet == req.pc = "idle" /\ \A c \in Cycles : cyc[c].pc = "idle"

InitSeq == Init /\ retrySchema

NextSeq ==
  \/ \E t \in DueTimes : Quiet /\ Tick(t)
  \/ \E t \in Trips, d \in Durations :
       /\ Quiet
       /\ starts < MaxSeqStarts
       /\ \A r \in timers : r.tripId # t
       /\ StartTimer(t, d)
  \/ AddOrUpdateJobSelect
  \/ AddOrUpdateJobWrite
  \/ \E t \in Trips : Quiet /\ CancelTimer(t)
  \/ Quiet /\ BeginCycle("cron")
  \/ FetchRetries("cron")
  \/ \E rs \in Outcomes("cron") : MarkCompleted("cron", rs)
  \/ RetryFailed("cron")

SpecSeq == InitSeq /\ [][NextSeq]_vars

\* One handler at a time as in SpecSeq, but a trip may be started again
\* whatever rows it has.
NextRestart ==
  \/ \E t \in DueTimes : Quiet /\ Tick(t)
  \/ \E t \in CoreTrips, d \in Durations :
       Quiet /\ starts < MaxSeqStarts /\ StartTimer(t, d)
  \/ AddOrUpdateJobSelect
  \/ AddOrUpdateJobWrite
  \/ \E t \in Trips : Quiet /\ CancelTimer(t)
  \/ Quiet /\ BeginCycle("cron")
  \/ FetchRetries("cron")
  \/ \E rs \in Outcomes("cron") : MarkCompleted("cron", rs)
  \/ RetryFailed("cron")

SpecRestart == InitSeq /\ [][NextRestart]_vars

\* As SpecSeq, but the cancel endpoint is also called while the poll cycle is
\* in flight, between its fetch and its reconciliations.
NextRace ==
  \/ \E t \in DueTimes : Quiet /\ Tick(t)
  \/ \E t \in Trips, d \in Durations :
       /\ Quiet
       /\ starts < MaxSeqStarts
       /\ \A r \in timers : r.tripId # t
       /\ StartTimer(t, d)
  \/ AddOrUpdateJobSelect
  \/ AddOrUpdateJobWrite
  \/ \E t \in Trips : req.pc = "idle" /\ CancelTimer(t)
  \/ Quiet /\ BeginCycle("cron")
  \/ FetchRetries("cron")
  \/ \E rs \in Outcomes("cron") : MarkCompleted("cron", rs)
  \/ RetryFailed("cron")

SpecRace == InitSeq /\ [][NextRace]_vars

\* As SpecSeq, with the store calls of the poll cycle failing at will.
NextFault ==
  \/ \E t \in DueTimes : Quiet /\ Tick(t)
  \/ \E t \in Trips, d \in Durations :
       /\ Quiet
       /\ starts < MaxSeqStarts
       /\ \A r \in timers : r.tripId # t
       /\ StartTimer(t, d)
  \/ AddOrUpdateJobSelect
  \/ AddOrUpdateJobWrite
  \/ Quiet /\ BeginCycle("cron")
  \/ FetchRetries("cron")
  \/ StoreError("cron")
  \/ \E rs \in Outcomes("cron") : MarkCompleted("cron", rs)
  \/ \E rs \in Outcomes("cron") : MarkCompletedError("cron", rs)
  \/ RetryFailed("cron")

SpecFault == InitSeq /\ [][NextFault]_vars

\* Start requests of one trip, removeJob and the periodic poll cycle interleaved
\* at will on a table that has the retry columns; no store call fails.
NextInterleave ==
  \/ \E t \in DueTimes : Quiet /\ Tick(t)
  \/ \E t \in CoreTrips, d \in Durations : starts < MaxSeqStarts /\ StartTimer(t, d)
  \/ AddOrUpdateJobSelect
  \/ AddOrUpdateJobWrite
  \/ \E t \in CoreTrips : RemoveJobCall(t)
  \/ BeginCycle("cron")
  \/ FetchRetries("cron")
  \/ \E rs \in Outcomes("cron") : MarkCompleted("cron", rs)
  \/ RetryFailed("cron")

SpecInterleave == InitSeq /\ [][NextInterleave]_vars

\* The time from a timer's deadline to the retry that expires it.
TimeToExpiry == retryDelays[1] + retryDelays[2] + retryDelays[3]

\* Timers that are neither restarted nor cancelled, started early enough for
\* their whole life to lie within MaxNow, on a store that has the retry
\* columns and never fails; the scheduler runs.
NextLive ==
  \/ \E t \in DueTimes : Quiet /\ Tick(t)
  \/ \E t \in Trips, d \in Durations :
       /\ Quiet
       /\ starts < MaxSeqStarts
       /\ \A r \in timers : r.tripId # t
       /\ now + d + TimeToExpiry <= MaxNow
       /\ StartTimer(t, d)
  \/ AddOrUpdateJobSelect
  \/ AddOrUpdateJobWrite
  \/ Quiet /\ BeginCycle("cron")
  \/ FetchRetries("cron")
  \/ \E rs \in Outcomes("cron") : MarkCompleted("cron", rs)
  \/ RetryFailed("cron")

\* Fairness: the periodic task fires every minute while it runs and every
\* await of a cycle or of a start request returns (weak fairness); the clock
\* reaches every due instant, which the model lets it do between handlers
\* (strong fairness, handlers keep interrupting it).
SpecLive ==
  /\ InitSeq
  /\ [][NextLive]_vars
  /\ SF_vars(\E t \in DueTimes : Quiet /\ Tick(t))
  /\ WF_vars(AddOrUpdateJobSelect)
  /\ WF_vars(AddOrUpdateJobWrite)
  /\ WF_vars(Quiet /\ BeginCycle("cron"))
  /\ WF_vars(FetchRetries("cron"))
  /\ WF_vars(\E rs \in Outcomes("cron") : MarkCompleted("cron", rs))
  /\ WF_vars(RetryFailed("cron"))

\* One timer of one trip and the periodic cycle, one handler at a time, each
\* POST settling with any of PostOutcomes and the result objects kept.
NextDeliver ==
  \/ \E t \in DueTimes : Quiet /\ Tick(t)
  \/ \E t \in CoreTrips, d \in Durations :
       /\ Quiet
       /\ starts < MaxSeqStarts
       /\ \A r \in timers : r.tripId # t
       /\ StartTimer(t, d)
  \/ AddOrUpdateJobSelect
  \/ AddOrUpdateJobWrite
  \/ Quiet /\ BeginCycle("cron")
  \/ FetchRetries("cron")
  \/ \E outs \in SettledOutcomes("cron") : ProcessSettled("cron", outs)
  \/ RetryFailed("cron")

SpecDeliver == InitSeq /\ [][NextDeliver]_vars

\* Two start requests of one trip in flight at a time, each on its own
\* connection, and the periodic cycle between requests.
NextConcurrent ==
  \/ \E t \in DueTimes : Quiet /\ req2.pc = "idle" /\ Tick(t)
  \/ \E t \in CoreTrips, d \in Durations : starts < MaxSeqStarts /\ StartTimer(t, d)
  \/ AddOrUpdateJobSelect
  \/ AddOrUpdateJobWrite
  \/ \E t \in CoreTrips, d \in Durations :
       starts < MaxSeqStarts /\ ConcurrentSelect(t, d)
  \/ ConcurrentWrite
  \/ Quiet /\ req2.pc = "idle" /\ BeginCycle("cron")
  \/ FetchRetries("cron")
  \/ \E rs \in Outcomes("cron") : MarkCompleted("cron", rs)
  \/ RetryFailed("cron")

SpecConcurrent == InitSeq /\ [][NextConcurrent]_vars

\* The CronJobManager as constructed, before app.js calls initialize() and
\* start(): no periodic task yet.
InitCron ==
  /\ timers = {}
  /\ nextId = 1
  /\ starts = 0
  /\ now = 0
  /\ retrySchema = TRUE
  /\ isInitialized = FALSE
  /\ cronTasks = 0
  /\ cronRunning = FALSE
  /\ lastCall = "none"
  /\ cyc = [c \in Cycles |-> IdleCycle]
  /\ req = IdleReq
  /\ resp = NoResp
  /\ lastResults = <<>>
  /\ req2 = IdleReq

\* The scheduler's own interface called in any order, start requests with
\* their duration strings, and the periodic poll cycle, one handler at a
\* time; stop() is not called while a start request is in flight.
NextCron ==
  \/ Initialize
  \/ Start
  \/ req.pc = "idle" /\ Stop
  \/ \E t \in DueTimes : Quiet /\ Tick(t)
  \/ \E t \in CoreTrips, d \in DurationInputs :
       Quiet /\ starts < MaxSeqStarts /\ StartTimerRequest(t, d)
  \/ AddOrUpdateJobSelect
  \/ AddOrUpdateJobWrite
  \/ Quiet /\ BeginCycle("cron")
  \/ FetchRetries("cron")
  \/ \E rs \in Outcomes("cron") : MarkCompleted("cron", rs)
  \/ RetryFailed("cron")

SpecCron == InitCron /\ [][NextCron]_vars

\* ------------------------------------------------------------------ claims
\* The rows of trip t that are active or pending_retry.
LiveRows(t) == {r \in timers : r.tripId = t /\ Live(r)}

\* The job that the next scheduleRetry of cycle c is called for.
RetryJob(c) == cyc[c].jobs[cyc[c].k]

\* C1: in every reachable state each tripId has at most one row whose status
\* is active or pending_retry (a start on a pending_retry row reuses it).
C1_SingleLiveRowPerTrip ==
  \A t \in Trips : Cardinality(LiveRows(t)) <= 1

\* C2: a reconciliation step of a poll cycle leaves unchanged every row it
\* fetched whose status no longer equals the status the cycle read: the cycle
\* that reconciles second matches no row.
C2_ReconcileOnlyOnReadStatus ==
  [][\A c \in Cycles :
       (cyc[c].pc \in {"posting", "retrying"} /\ cyc'[c] # cyc[c])
         => \A i \in DOMAIN cyc[c].jobs : \A r \in timers :
              (r.id = cyc[c].jobs[i].id /\ r.status # cyc[c].jobs[i].status)
                => r \in timers']_vars

\* C3: once a row is completed or expired, no step of any poll cycle (nor of
\* any other handler) changes it again.
C3_TerminalRowsAreFinal ==
  [][\A r \in timers : Terminal(r) => r \in timers']_vars

\* C3 witness: a cycle is about to reconcile a job whose row another cycle
\* has already made completed or expired.
C3_Witness ==
  \E c \in Cycles : \E i \in DOMAIN cyc[c].jobs : \E r \in timers :
    /\ cyc[c].pc \in {"posting", "retrying"}
    /\ i >= cyc[c].k
    /\ r.id = cyc[c].jobs[i].id
    /\ Terminal(r)

\* C4: in every reachable state every row has retryCount <= 3.
C4_RetryCountAtMostMax ==
  \A r \in timers : r.retryCount <= 3

\* C4 witness: a row whose retryCount has reached the maximum.
C4_Witness ==
  \E r \in timers : r.retryCount = 3

\* C5 as claimed: no webhook POST is issued for a row whose retryCount is 3,
\* and no row has retryCount 3 with status pending_retry.
C5_NoAttemptAtMax ==
  /\ \A c \in Cycles : \A i \in DOMAIN cyc[c].jobs :
       cyc[c].pc = "posting" => CurrentRetryCount(cyc[c].jobs[i]) # 3
  /\ \A r \in timers : ~(r.retryCount = 3 /\ r.status = "pending_retry")

\* C5 amended: a row whose retryCount has reached 3 still gets one POST, sent
\* with retryCount 3, and it is the failure of that POST that makes the row
\* expired. No POST carries a retryCount above 3, a cycle fetches only rows
\* that are active or pending_retry (never an expired one), and the failure of
\* a POST sent with retryCount 3 turns the row, if still live, to expired.
C5_ExpiredAfterAttemptAtMax ==
  /\ [](\A c \in Cycles : \A i \in DOMAIN cyc[c].jobs :
          CurrentRetryCount(cyc[c].jobs[i]) <= 3)
  /\ [][\A c \in Cycles :
          (cyc[c].pc \in {"idle", "pending"} /\ cyc'[c].pc \in {"pending", "posting"})
            => \A i \in DOMAIN cyc'[c].jobs :
                 \/ i \in DOMAIN cyc[c].jobs /\ cyc[c].jobs[i] = cyc'[c].jobs[i]
                 \/ \E r \in timers : r.id = cyc'[c].jobs[i].id /\ Live(r)]_vars
  /\ [][\A c \in Cycles :
          (RetryFailed(c) /\ CurrentRetryCount(RetryJob(c)) = 3)
            => \A r \in timers :
                 (r.id = RetryJob(c).id /\ Live(r))
                   => [r EXCEPT !.status = "expired"] \in timers']_vars

\* C5 witness: the POST of a job with retryCount 3 is in flight.
C5_Witness ==
  \E c \in Cycles : \E i \in DOMAIN cyc[c].jobs :
    cyc[c].pc = "posting" /\ CurrentRetryCount(cyc[c].jobs[i]) = 3

\* The rung a failed delivery moves a row to: active (0) -> pending_retry 1
\* -> pending_retry 2 -> pending_retry 3 -> expired (retryCount still 3).
C6_NextRung(r) ==
  IF r.retryCount < 3
    THEN [status |-> "pending_retry", retryCount |-> r.retryCount + 1]
    ELSE [status |-> "expired", retryCount |-> 3]

\* C6: with one poll cycle at a time and no restart or cancel, every cycle
\* whose POST for a timer fails moves its row exactly one rung: retryCount
\* 0 -> 1 -> 2 -> 3 in status pending_retry, and the fourth failure makes it
\* expired with retryCount 3; no row changes status or retryCount otherwise,
\* except to completed. So a timer whose attempts all fail is expired with
\* retryCount 3 after exactly four such cycles.
C6_FourFailuresExpire ==
  /\ [](\A r \in timers :
          /\ r.status = "active" => r.retryCount = 0
          /\ r.status = "pending_retry" => r.retryCount \in 1..3
          /\ r.status = "expired" => r.retryCount = 3)
  /\ [][\A r \in timers : \A q \in timers' :
          (q.id = r.id /\ (q.status # r.status \/ q.retryCount # r.retryCount))
            => \/ q.status = "completed" /\ q.retryCount = r.retryCount /\ Live(r)
               \/ /\ Live(r)
                  /\ q.status = C6_NextRung(r).status
                  /\ q.retryCount = C6_NextRung(r).retryCount]_vars
  /\ [][\A c \in Cycles :
          RetryFailed(c)
            => \E r \in timers : \E q \in timers' :
                 /\ r.id = RetryJob(c).id
                 /\ Live(r)
                 /\ q.id = r.id
                 /\ q.status = C6_NextRung(r).status
                 /\ q.retryCount = C6_NextRung(r).retryCount]_vars

\* C6 witness: a row expired with retryCount 3 at the end of the ladder, one
\* duration and 1 + 5 + 15 minutes after its creation.
C6_Witness ==
  \E r \in timers :
    /\ r.status = "expired"
    /\ r.retryCount = 3
    /\ now = r.deadline + 60000 + 300000 + 900000
    /\ Quiet

\* C7: in a poll cycle that runs alone, every due row whose POST is answered
\* with a status in [200,300) is completed by the cycle's markJobsCompleted.
C7_SuccessCompletes ==
  [][\A c \in Cycles : \A rs \in Outcomes(c) :
       MarkCompleted(c, rs)
         => \A i \in DOMAIN rs :
              (rs[i] >= 200 /\ rs[i] < 300)
                => \E q \in timers' :
                     q.id = cyc[c].jobs[i].id /\ q.status = "completed"]_vars

\* C7 witness: both kinds of due row have been completed: one that was active
\* and one that was pending_retry.
C7_Witness ==
  /\ \E r \in timers : r.status = "completed" /\ r.retryCount = 0
  /\ \E r \in timers : r.status = "completed" /\ r.retryCount > 0
  /\ Quiet

\* C8: scheduleRetry after a failure at retryCount n moves the job's row, if
\* still live, to pending_retry with retryCount n + 1 and nextRetryAt = now +
\* 60000, 300000, 900000 ms for n = 0, 1, 2; at n >= 3 the row becomes expired
\* and its nextRetryAt is left as it was.
C8_RetryLadder ==
  [][\A c \in Cycles :
       RetryFailed(c)
         => LET n == CurrentRetryCount(RetryJob(c))
            IN  \A r \in timers :
                  (r.id = RetryJob(c).id /\ Live(r))
                    => \E q \in timers' :
                         /\ q.id = r.id
                         /\ n = 0 => /\ q.status = "pending_retry"
                                     /\ q.retryCount = 1
                                     /\ q.nextRetryAt = now + 60000
                         /\ n = 1 => /\ q.status = "pending_retry"
                                     /\ q.retryCount = 2
                                     /\ q.nextRetryAt = now + 300000
                         /\ n = 2 => /\ q.status = "pending_retry"
                                     /\ q.retryCount = 3
                                     /\ q.nextRetryAt = now + 900000
                         /\ n >= 3 => /\ q.status = "expired"
                                      /\ q.nextRetryAt = r.nextRetryAt]_vars

\* C8 witness: a row on the last rung, scheduled 15 minutes after its third
\* failure.
C8_Witness ==
  \E r \in timers :
    /\ r.status = "pending_retry"
    /\ r.retryCount = 3
    /\ r.nextRetryAt = r.lastRetryAt + 900000

\* C9: when addOrUpdateJob commits for a tripId that has a row in active or
\* pending_retry, that row is updated in place: getJobByTripId then returns
\* exactly that row (same id and createdAt) with the request's webhookUrl and
\* senderId, deadline = now + durationMs, status active and retryCount 0, and
\* the trip has no other live row.
C9_RestartUpdatesInPlace ==
  [][(req.pc = "selected" /\ req'.pc = "idle")
       => \A r \in LiveRows(req.tripId) :
            /\ GetJobByTripId(timers', req.tripId) =
                 {[r EXCEPT !.webhookUrl = req.webhookUrl,
                            !.senderId = req.senderId,
                            !.deadline = req.deadline,
                            !.status = "active",
                            !.retryCount = 0]}
            /\ \A q \in timers' :
                 (q.tripId = req.tripId /\ Live(q)) => q.id = r.id]_vars

\* C10: cancel for a tripId that has no row answers false / 404 and leaves
\* the table as it was, however often it is repeated.
C10_CancelOfMissingTrip ==
  [][\A t \in Trips :
       (CancelTimer(t) /\ \A r \in timers : r.tripId # t)
         => /\ timers' = timers
            /\ resp'.removed = FALSE
            /\ resp'.http = 404]_vars

\* C10 witness: the trip without a row was cancelled (404) while the table
\* holds another trip's live row.
C10_Witness ==
  /\ resp = [tripId |-> "T2", removed |-> FALSE, http |-> 404]
  /\ \E r \in timers : Live(r)
  /\ \A r \in timers : r.tripId # "T2"

\* C11: a start request whose duration parseDuration rejects ("30x", "0s",
\* "-5s", "1.m") is answered 400 and leaves the table, the scheduler and the
\* request state as they were: no addOrUpdateJob, no user lookup, no start().
C11_RejectedDurationWritesNothing ==
  [][\A t \in CoreTrips :
       \A d \in {<<"3", "0", "x">>, <<"0", "s">>, <<"-", "5", "s">>, <<"1", ".", "m">>} :
         StartTimerRequest(t, d)
           => /\ resp'.http = 400
              /\ UNCHANGED <<timers, nextId, starts, cronVars, req, cyc>>]_vars

\* C11 witness: a request was answered 400 while the scheduler is stopped and
\* a timer of the same trip is stored.
C11_Witness ==
  /\ resp.http = 400
  /\ ~cronRunning
  /\ \E r \in timers : r.tripId = resp.tripId /\ r.status = "active"
  /\ req.pc = "idle"

\* The jobs of cycle c whose row is no longer in the table.
GoneJobs(c) ==
  {i \in DOMAIN cyc[c].jobs : \A r \in timers : r.id # cyc[c].jobs[i].id}

\* C12: when cancel has removed a row that a poll cycle holds in its due set,
\* the cycle's reconciliation for that job matches no row: no row of that
\* trip appears or changes, a scheduleRetry for it leaves the whole table as
\* it was, and the cycle goes on to its next job (or ends) as after any other
\* reconciliation.
C12_CancelledJobIsNoOp ==
  [][\A c \in Cycles :
       (cyc[c].pc \in {"posting", "retrying"} /\ cyc'[c] # cyc[c])
         => /\ \A r \in timers' :
                 (\E i \in GoneJobs(c) : r.tripId = cyc[c].jobs[i].tripId)
                   => r \in timers
            /\ (cyc[c].pc = "retrying" /\ cyc[c].k \in GoneJobs(c))
                 => /\ timers' = timers
                    /\ cyc'[c] = IF cyc[c].k = Len(cyc[c].jobs)
                                   THEN IdleCycle
                                   ELSE [cyc[c] EXCEPT !.k = @ + 1]]_vars

\* C12 witness: the retry loop has passed over a job whose row was cancelled
\* after the fetch and is at its next job.
C12_Witness ==
  \E c \in Cycles :
    /\ cyc[c].pc = "retrying"
    /\ cyc[c].k = 2
    /\ 1 \in GoneJobs(c)
    /\ resp.removed

\* C13: no delivery failure ends a poll cycle: whatever the POSTs settle with
\* (no response, a non-2xx status), the cycle goes on to its retry loop with
\* exactly the jobs whose POST was not answered 2xx, hands each of them to
\* scheduleRetry (a live row of the job leaves its state), and returns to idle
\* only after the last of them.
C13_FailuresAreReconciled ==
  /\ [][\A c \in Cycles : \A rs \in Outcomes(c) :
          MarkCompleted(c, rs)
            => LET failed == {i \in DOMAIN rs : ~(rs[i] >= 200 /\ rs[i] < 300)}
               IN  IF failed = {}
                     THEN cyc'[c].pc = "idle"
                     ELSE /\ cyc'[c].pc = "retrying"
                          /\ cyc'[c].k = 1
                          /\ Len(cyc'[c].jobs) = Cardinality(failed)
                          /\ {cyc'[c].jobs[j].id : j \in DOMAIN cyc'[c].jobs}
                               = {cyc[c].jobs[i].id : i \in failed}]_vars
  /\ [][\A c \in Cycles :
          (cyc[c].pc = "retrying" /\ cyc'[c] # cyc[c])
            => /\ \A r \in timers :
                    (r.id = RetryJob(c).id /\ Live(r)) => r \notin timers'
               /\ cyc'[c].pc = "idle" => cyc[c].k = Len(cyc[c].jobs)
               /\ cyc'[c].pc # "idle" => cyc'[c].k = cyc[c].k + 1]_vars

\* C13 witness: two deliveries of one cycle failed; the first job has been
\* handed to scheduleRetry and the loop is at the second.
C13_Witness ==
  \E c \in Cycles :
    /\ cyc[c].pc = "retrying"
    /\ Len(cyc[c].jobs) = 2
    /\ cyc[c].k = 2
    /\ \E r \in timers : r.id = cyc[c].jobs[1].id /\ r.status = "pending_retry"

\* C14: a store failure while one timer of a poll cycle is reconciled does
\* not keep the cycle from its other timers: when scheduleRetry fails for a
\* job that is not the last of the retry loop, the loop goes on with the
\* next job.
C14_StoreFailureSparesOthers ==
  [][\A c \in Cycles :
       (StoreError(c) /\ cyc[c].pc = "retrying" /\ cyc[c].k < Len(cyc[c].jobs))
         => cyc'[c] = [cyc[c] EXCEPT !.k = @ + 1]]_vars

\* The jobs of cycle c that are due again at time t: a next cycle fetches them.
DueAgain(c, t) ==
  {i \in DOMAIN cyc[c].jobs :
     \E r \in timers' :
       /\ r.id = cyc[c].jobs[i].id
       /\ \/ r.status = "active" /\ r.deadline <= t
          \/ r.status = "pending_retry" /\ r.nextRetryAt <= t}

\* C15: when a store operation of a poll cycle fails, no row is advanced, the
\* cycle continues with its remaining timers, and the timer the failure hit
\* is due again for the next cycle.
C15_StoreFailureRetriedNextCycle ==
  [][\A c \in Cycles :
       (StoreError(c) /\ cyc[c].pc = "retrying")
         => /\ timers' = timers
            /\ cyc[c].k \in DueAgain(c, now)
            /\ cyc[c].k < Len(cyc[c].jobs)
                 => cyc'[c] = [cyc[c] EXCEPT !.k = @ + 1]]_vars

\* C16: poll cycles never overlap: at most one execution of
\* processExpiredJobs, periodic or manual, is in progress at any time.
C16_NoOverlappingCycles ==
  Cardinality({c \in Cycles : cyc[c].pc # "idle"}) <= 1

\* C17: whatever the order of initialize(), start() and stop(), there is at
\* most one periodic task (one exactly once initialized), the task runs
\* exactly when the last of start() and stop() called was start(), and
\* initialize() when initialized or start() when running changes nothing.
C17_SchedulerIdempotent ==
  /\ [](/\ cronTasks <= 1
        /\ isInitialized <=> cronTasks = 1
        /\ GetStatus(CronState).running <=> lastCall = "start")
  /\ [][(Initialize /\ isInitialized)
          => UNCHANGED <<isInitialized, cronTasks, cronRunning>>]_vars
  /\ [][(Start /\ cronRunning)
          => UNCHANGED <<isInitialized, cronTasks, cronRunning>>]_vars

\* C17 witness: the one task, started and stopped again, with a timer stored.
C17_Witness ==
  /\ cronTasks = 1
  /\ isInitialized
  /\ lastCall = "stop"
  /\ ~GetStatus(CronState).running
  /\ timers # {}

\* C18: the status query of a trip whose timer is expired, and that has no
\* newer live timer, answers 200 with that timer and status expired, never
\* 'not found'.
C18_ExpiredTimerIsFound ==
  \A r \in timers :
    (r.status = "expired" /\ ~\E l \in timers : l.tripId = r.tripId /\ Live(l))
      => \A a \in GetTimerStatusByTripId(timers, r.tripId) :
           a.http = 200 /\ a.job.id = r.id /\ a.job.status = "expired"

\* C19: a timer whose webhook POST was answered with success is not expired
\* once the cycle that posted it has reconciled its successes: an expired row
\* has had no successful delivery.
C19_ExpiredNeverDelivered ==
  [][\A c \in Cycles : \A rs \in Outcomes(c) :
       MarkCompleted(c, rs)
         => \A i \in DOMAIN rs :
              IsSuccess(rs[i])
                => \A r \in timers' :
                     r.id = cyc[c].jobs[i].id => r.status # "expired"]_vars

\* C20: a start request that passes validation leaves the scheduler running,
\* starting it when it was not, and addOrUpdateJob writes the timer while the
\* scheduler runs (stop() not being called during the request).
C20_StartRequestStartsScheduler ==
  /\ [][(req.pc = "idle" /\ req'.pc = "checked")
          => /\ cronRunning'
             /\ req'.cronStarted <=> ~cronRunning]_vars
  /\ [][(req.pc = "selected" /\ req'.pc = "idle") => cronRunning]_vars

\* C20 witness: a request found the scheduler stopped, with a timer of an
\* earlier request stored, and has started it.
C20_Witness ==
  /\ req.pc = "checked"
  /\ req.cronStarted
  /\ cronRunning
  /\ timers # {}

\* C21: the start operation answers 'restarted' exactly when addOrUpdateJob
\* found and updated an active row of the trip, and 'started' exactly when it
\* inserted a new row, whatever ran between the controller's existence check
\* and the write.
C21_AnswerAgreesWithStore ==
  [][AddOrUpdateJobWrite
       => /\ ResponseMessage(req.isRestart) = "restarted"
               <=> /\ req.existing # {}
                   /\ \E r \in timers : r.id \in req.existing /\ r.status = "active"
          /\ ResponseMessage(req.isRestart) = "started" <=> nextId' # nextId]_vars

\* C22: when the poll cycle triggered by process-expired hits an error (a
\* store call throws), the operation answers 500 with success = false.
C22_ManualFailureAnswers500 ==
  [][(\/ StoreError("manual")
      \/ \E rs \in Outcomes("manual") : MarkCompletedError("manual", rs))
       => ProcessExpiredTimers(TriggerManualProcess(TRUE))
            = [http |-> 500, success |-> FALSE]]_vars

\* C23: the only status changes a row ever undergoes are active -> completed,
\* active -> pending_retry, pending_retry -> completed, pending_retry ->
\* pending_retry with retryCount + 1, and pending_retry -> expired: no row goes
\* from active to expired directly and none returns to active.
C23_CycleTransitions ==
  [][\A r \in timers : \A q \in timers' :
       (q.id = r.id /\ q # r)
         => \/ r.status = "active" /\ q.status \in {"active", "completed", "pending_retry"}
            \/ /\ r.status = "pending_retry"
               /\ \/ q.status \in {"completed", "expired"}
                  \/ q.status = "pending_retry" /\ q.retryCount = r.retryCount + 1]_vars

\* The rows that are due at the present instant: active with deadline <= now,
\* or pending_retry with nextRetryAt <= now.
DueRows ==
  {r \in timers : \/ r.status = "active" /\ r.deadline <= now
                  \/ r.status = "pending_retry" /\ r.nextRetryAt # NullTime
                                                /\ r.nextRetryAt <= now}

\* C24: in one poll cycle every due timer is posted exactly once, each POST
\* settling with an outcome of its own, and the cycle writes nothing to the
\* store before the POSTs have settled: its first write is the reconciliation
\* that has the outcome of every POST.
C24_EveryDueTimerOneAttempt ==
  /\ [](cyc["cron"].pc = "posting"
          => \A r \in DueRows :
               Cardinality({i \in DOMAIN cyc["cron"].jobs :
                              cyc["cron"].jobs[i].id = r.id}) = 1)
  /\ [][cyc["cron"].pc = "pending" => timers' = timers]_vars
  /\ [][(cyc["cron"].pc = "posting" /\ cyc'["cron"] # cyc["cron"])
          => \E rs \in Outcomes("cron") :
               /\ DOMAIN rs = DOMAIN cyc["cron"].jobs
               /\ MarkCompleted("cron", rs)]_vars

\* C24 witness: a cycle has posted an active and a pending_retry timer, the
\* first POST succeeded and the second failed, and only the failed one is
\* left to reconcile.
C24_Witness ==
  /\ cyc["cron"].pc = "retrying"
  /\ Len(cyc["cron"].jobs) = 1
  /\ cyc["cron"].jobs[1].status = "pending_retry"
  /\ \E r \in timers : r.status = "completed" /\ r.tripId # cyc["cron"].jobs[1].tripId
  /\ \E r \in timers : r.status = "pending_retry" /\ r.id = cyc["cron"].jobs[1].id

\* C25: a job enters a cycle's due set, and so is posted, only if at that
\* fetch its row was active with deadline <= now (getExpiredJobs) or
\* pending_retry with nextRetryAt <= now (getPendingRetries).
C25_PostOnlyIfDue ==
  [][\A c \in Cycles : \A i \in DOMAIN cyc'[c].jobs :
       (/\ cyc[c].pc \in {"idle", "pending"}
        /\ cyc'[c].pc \in {"pending", "posting"}
        /\ i > Len(cyc[c].jobs))
         => \E r \in timers :
              /\ r.id = cyc'[c].jobs[i].id
              /\ r.status = cyc'[c].jobs[i].status
              /\ \/ /\ cyc[c].pc = "idle"
                    /\ r.status = "active"
                    /\ r.deadline <= now
                 \/ /\ cyc[c].pc = "pending"
                    /\ r.status = "pending_retry"
                    /\ r.nextRetryAt # NullTime
                    /\ r.nextRetryAt <= now]_vars

\* C25 witness: a cycle is posting a retry that it fetched at or after the
\* row's nextRetryAt, the row's deadline long past.
C25_Witness ==
  \E c \in Cycles :
    /\ cyc[c].pc = "posting"
    /\ \E i \in DOMAIN cyc[c].jobs : \E r \in timers :
         /\ r.id = cyc[c].jobs[i].id
         /\ cyc[c].jobs[i].status = "pending_retry"
         /\ r.status = "pending_retry"
         /\ r.deadline < r.nextRetryAt
         /\ r.nextRetryAt <= now

\* C26: the deadline of a row changes only in the write of a restart, on an
\* active row; every poll-cycle transition (to completed, pending_retry or
\* expired) leaves it as it was, together with id, trip, webhook and sender.
C26_DeadlineSetOnlyByStart ==
  [][\A r \in timers : \A q \in timers' :
       q.id = r.id
         => /\ q.deadline # r.deadline
                 => AddOrUpdateJobWrite /\ r.id \in req.existing /\ r.status = "active"
            /\ q.status # r.status
                 => /\ q.deadline = r.deadline
                    /\ q.tripId = r.tripId
                    /\ q.webhookUrl = r.webhookUrl
                    /\ q.senderId = r.senderId
                    /\ q.createdAt = r.createdAt]_vars

\* C26 witness: a row restarted with a later deadline has since failed a
\* delivery and waits for its retry, its deadline still that of the restart.
C26_Witness ==
  \E r \in timers :
    /\ r.status = "pending_retry"
    /\ r.deadline > r.createdAt + 60000
    /\ r.nextRetryAt > r.deadline

\* C27: every failed delivery attempt is counted once: when a cycle
\* reconciles a failed POST of a row that is still live and below maxRetries,
\* the row's retryCount goes up by one, so that retryCount is the number of
\* attempts that failed, also when cycles overlap.
C27_RetryCountCountsFailures ==
  [][\A c \in Cycles :
       RetryFailed(c)
         => \A r \in timers :
              (r.id = RetryJob(c).id /\ Live(r) /\ r.retryCount < maxRetries)
                => \E q \in timers' : q.id = r.id /\ q.retryCount = r.retryCount + 1]_vars

\* C28: in every reachable state a row with status active has retryCount = 0
\* and lastRetryAt = nextRetryAt = null.
C28_ActiveRowHasNoRetryData ==
  \A r \in timers :
    r.status = "active"
      => r.retryCount = 0 /\ r.lastRetryAt = NullTime /\ r.nextRetryAt = NullTime

\* C28 witness: an active row restarted after a failed delivery of the same
\* trip, next to the trip's row that waits for its retry.
C28_Witness ==
  \E r \in timers : \E p \in timers :
    /\ r.status = "active"
    /\ p.status = "pending_retry"
    /\ p.tripId = r.tripId
    /\ r.createdAt >= p.lastRetryAt

\* C29: cancel of a trip whose timer is active or pending_retry answers true
\* and leaves no live row of the trip, so that no later poll cycle fetches,
\* and posts, a timer of that trip.
C29_CancelDeactivates ==
  [][\A t \in Trips :
       (CancelTimer(t) /\ LiveRows(t) # {})
         => /\ resp'.removed
            /\ resp'.http = 200
            /\ \A r \in timers' : r.tripId = t => ~Live(r)
            /\ \A r \in timers' : r.tripId = t => r \notin DueRows']_vars

\* C30: while the scheduler runs, time advances and the store works, every
\* timer that is neither restarted nor cancelled eventually reaches a
\* terminal status, completed or expired.
C30_EveryTimerTerminates ==
  \A i \in 1..MaxSeqStarts :
    (\E r \in timers : r.id = i /\ Live(r))
      ~> (\E r \in timers : r.id = i /\ Terminal(r))

\* C30 witness: of two timers one was delivered and the other has expired
\* after its last retry.
C30_Witness ==
  /\ \E r \in timers : r.status = "expired" /\ r.retryCount = maxRetries
  /\ \E r \in timers : r.status = "completed"
  /\ \A r \in timers : Terminal(r)
  /\ cronRunning

\* The classification the retry policy prescribes for a failed delivery.
ExpectedRetryable(error) ==
  \/ error.code \in {"ECONNRESET", "ENOTFOUND", "ECONNREFUSED", "TIMEOUT", "ECONNABORTED"}
  \/ error.status >= 500
  \/ error.status \in {408, 429}
  \/ ~(error.status >= 400 /\ error.status < 500)

\* C31: a failed delivery is classified retryable for the error codes
\* ECONNRESET, ENOTFOUND, ECONNREFUSED and timeout, for a status >= 500, for
\* 408 and 429 and for any other or unknown error, and not retryable for
\* every other status in [400, 500).
C31_RetryableClassification ==
  \A i \in DOMAIN lastResults :
    ~lastResults[i].success
      => lastResults[i].isRetryable = ExpectedRetryable(lastResults[i].error)

\* C31 witness: the last cycle's POST was answered 429 and is classified
\* retryable.
C31_Witness ==
  \E i \in DOMAIN lastResults :
    /\ ~lastResults[i].success
    /\ lastResults[i].statusCode = 429
    /\ lastResults[i].isRetryable

\* C32: the payload of every POST carries the retryCount the row had when it
\* was fetched and isRetry = retryCount > 0: 0 and false for the first
\* attempt of an active timer, k and true for the k-th retry, k in 1..3.
C32_PayloadRetryCount ==
  [][\A outs \in SettledOutcomes("cron") :
       ProcessSettled("cron", outs)
         => \A i \in DOMAIN cyc["cron"].jobs : \E r \in timers :
              /\ r.id = cyc["cron"].jobs[i].id
              /\ lastResults'[i].payload.retryCount = r.retryCount
              /\ lastResults'[i].payload.isRetry = (r.retryCount > 0)
              /\ r.status = "active" => lastResults'[i].payload.retryCount = 0
              /\ r.status = "pending_retry"
                   => lastResults'[i].payload.retryCount \in 1..maxRetries]_vars

\* C32 witness: the third retry has been sent with retryCount 3 and isRetry,
\* has failed, and the row is about to expire.
C32_Witness ==
  /\ cyc["cron"].pc = "retrying"
  /\ \E i \in DOMAIN lastResults :
       /\ lastResults[i].payload.retryCount = maxRetries
       /\ lastResults[i].payload.isRetry
       /\ ~lastResults[i].success

\* C33: every duration string that parseDuration accepts yields a strictly
\* positive whole number of milliseconds, so that the deadline computed from
\* it is strictly later than the time of the request.
C33_AcceptedDurationIsPositive ==
  /\ req.pc = "checked" => req.durationMs > 0
  /\ req.pc = "selected" => req.deadline > now

\* C34: two poll cycles never both have a webhook POST in flight for the same
\* row at the same retryCount: a due occurrence of a timer is posted once.
C34_OnePostPerDueOccurrence ==
  \A c \in Cycles : \A d \in Cycles \ {c} :
    (cyc[c].pc = "posting" /\ cyc[d].pc = "posting")
      => \A i \in DOMAIN cyc[c].jobs : \A j \in DOMAIN cyc[d].jobs :
           ~(/\ cyc[c].jobs[i].id = cyc[d].jobs[j].id
             /\ Payload(cyc[c].jobs[i]).retryCount = Payload(cyc[d].jobs[j]).retryCount)

\* C35: a poll cycle changes the status only of rows it fetched as due: a
\* timer restarted, or cancelled and started again, while the cycle's
\* delivery is in flight is not due and is left as it is by the cycle's
\* reconciliation.
C35_CycleTouchesOnlyFetchedRows ==
  [][\A r \in timers : \A q \in timers' :
       (q.id = r.id /\ q.status # r.status)
         => /\ r \in DueRows
            /\ \E i \in DOMAIN cyc["cron"].jobs : cyc["cron"].jobs[i].id = r.id]_vars

\* C36: once two concurrent start requests of a trip have both written, the
\* trip has exactly one active row: the select-then-insert of addOrUpdateJob
\* never lets both insert.
C36_ConcurrentStartsOneRow ==
  (req.pc = "idle" /\ req2.pc = "idle")
    => \A t \in Trips :
         Cardinality({r \in timers : r.tripId = t /\ r.status = "active"}) <= 1

C38_SchemaAdmitsRetry ==
  /\ {"active", "pending_retry", "completed", "expired"} \subseteq StatusDomain
  /\ RetryColumns \subseteq TableColumns
  /\ \A c \in Cycles : cyc[c].pc = "pending" => retrySchema

====
